---- MODULE Spec2Model ----
(***************************************************************************)
(* Model of the Bedrock inference client                                   *)
(* (src/openhands/llm/providers/bedrock.py): the retry decorator           *)
(* _handle_bedrock_error, the request encoder _prepare_model_kwargs,       *)
(* create_completion, and the two transport paths _sync_completion and     *)
(* _stream_completion (a Python generator).                                *)
(*                                                                         *)
(* Strings that the code inspects by prefix (model identifiers) are        *)
(* sequences of tokens.  Python dicts are functions from keys to values;   *)
(* Python None is the string "None".  The transport (boto3) is the         *)
(* environment: on every call it answers with one of TransportOutcomes.    *)
(*                                                                         *)
(* The module also models list_models of the same client and the provider  *)
(* registry CustomProviderLoader (src/providers/loader.py).  Spec is the   *)
(* client serving one call; SpecRegistry is one caller loading provider    *)
(* declarations one after the other; SpecRegistryConcurrent is two         *)
(* threads loading declarations of one model name at the same time;        *)
(* SpecConcurrentCalls is one client with two create_completion calls in   *)
(* flight.                                                                 *)
(***************************************************************************)
EXTENDS Integers, Sequences, FiniteSets, TLC

(***************************************************************************)
(* Bounds of the model.                                                    *)
(***************************************************************************)
\* largest number of events one upstream stream delivers
MaxFrames == 3

(***************************************************************************)
(* Generic Python helpers.                                                 *)
(***************************************************************************)
None == "None"
EmptyDict == << >>

\* dict.get(k, default)
Get(d, k, default) == IF k \in DOMAIN d THEN d[k] ELSE default

Min(a, b) == IF a <= b THEN a ELSE b

RECURSIVE Pow(_, _)
Pow(b, e) == IF e <= 0 THEN 1 ELSE b * Pow(b, e - 1)

\* all sequences over S of length 0..n
SeqsUpTo(S, n) == UNION {[1..k -> S] : k \in 0..n}

\* str.startswith(prefix) on a token sequence
StartsWith(s, prefix) == Len(s) >= 1 /\ s[1] = prefix

(***************************************************************************)
(* Exceptions.  type is the Python class; prefix and text make up str(e):  *)
(* prefix is the literal part of an f-string message, text the tokens of   *)
(* the interpolated part; n is the interpolated retry count of the         *)
(* rate-limit message; code is e.response['Error']['Code'] of a            *)
(* botocore ClientError.                                                   *)
(***************************************************************************)
NoError == [type |-> "", code |-> "", prefix |-> "", text |-> << >>, n |-> 0]

BedrockError(prefix, text) ==
    [type |-> "BedrockError", code |-> "", prefix |-> prefix, text |-> text, n |-> 0]

ClientError(code) ==
    [type |-> "ClientError", code |-> code, prefix |-> "",
     text |-> <<"An error occurred", code>>, n |-> 0]

PyException(type, text) ==
    [type |-> type, code |-> "", prefix |-> "", text |-> text, n |-> 0]

\* str(e)
Str(e) == IF e.prefix = "" THEN e.text ELSE <<e.prefix>> \o e.text

(***************************************************************************)
(* Model identifiers.                                                      *)
(***************************************************************************)
ProviderPrefix == "bedrock/"
Families == {"anthropic.claude", "amazon.titan", "ai21"}

ProviderModelIds ==
    { <<"anthropic.claude", "-3-sonnet">>, <<"amazon.titan", "-text">>,
      <<"ai21", ".j2-ultra">>, <<"meta.llama", "3-8b">> }

\* config.model: <provider>/<provider-model-id>, or a bare provider-model-id
ModelIdentifiers ==
    { <<ProviderPrefix>> \o m : m \in ProviderModelIds }
        \union { <<"anthropic.claude", "-3-sonnet">> }

\* self.config.model.replace('bedrock/', ''): removes every occurrence
StripProvider(model) == SelectSeq(model, LAMBDA t : t # ProviderPrefix)

\* the family branch taken by the if/elif chains on model_id.startswith(...)
FamilyOf(model_id) ==
    IF StartsWith(model_id, "anthropic.claude") THEN "anthropic.claude"
    ELSE IF StartsWith(model_id, "amazon.titan") THEN "amazon.titan"
    ELSE IF StartsWith(model_id, "ai21") THEN "ai21"
    ELSE "unsupported"

(***************************************************************************)
(* Client configuration (LLMConfig) fixed at construction.                 *)
(***************************************************************************)
\* num_retries: unset (None), 0, positive, negative
Unset == [set |-> FALSE, v |-> 0]
IntVal(i) == [set |-> TRUE, v |-> i]
NumRetriesValues == {Unset, IntVal(0), IntVal(1), IntVal(2), IntVal(-1)}

GuardrailValues == {None, "guardrail-1"}
RetryMinWaits == {15}
RetryMaxWaits == {40}
RetryMultipliers == {2}

Configs ==
    [model : ModelIdentifiers,
     num_retries : NumRetriesValues,
     caching_prompt : BOOLEAN,
     guardrail_config : GuardrailValues,
     retry_min_wait : RetryMinWaits,
     retry_max_wait : RetryMaxWaits,
     retry_multiplier : RetryMultipliers,
     temperature : {"0.0"},
     top_p : {"1.0"},
     max_output_tokens : {"1024"}]

DefaultMaxRetries == 3

\* max_retries = self.config.num_retries or 3
MaxRetries(cfg) ==
    IF cfg.num_retries.set /\ cfg.num_retries.v # 0
    THEN cfg.num_retries.v ELSE DefaultMaxRetries

(***************************************************************************)
(* Model-format adapter: encode.                                           *)
(***************************************************************************)
Prompts == {"Test prompt"}

\* keyword overrides of one call
KwargsValues == { EmptyDict, [cache_ttl |-> 120] }

PrepareModelKwargs_FlatNames(cfg, prompt, kwargs) ==
    IF FamilyOf(StripProvider(cfg.model)) = "unsupported"
    THEN [err |-> BedrockError("Unsupported model: ", StripProvider(cfg.model)),
          body |-> EmptyDict]
    ELSE [err |-> NoError,
          body |-> [prompt |-> <<prompt>>,
                    temperature |-> Get(kwargs, "temperature", cfg.temperature),
                    topP |-> Get(kwargs, "top_p", cfg.top_p),
                    maxTokens |-> Get(kwargs, "max_tokens", cfg.max_output_tokens)]]

\* _prepare_model_kwargs: [err, body]
PrepareModelKwargs(cfg, prompt, kwargs) ==
    LET model_id == StripProvider(cfg.model)
        params == [temperature |-> Get(kwargs, "temperature", cfg.temperature),
                   top_p |-> Get(kwargs, "top_p", cfg.top_p),
                   max_tokens |-> Get(kwargs, "max_tokens", cfg.max_output_tokens)]
        fam == FamilyOf(model_id)
    IN  IF fam = "anthropic.claude" THEN
            [err |-> NoError,
             body |-> [prompt |-> <<"Human: ", prompt, "\n\nAssistant:">>,
                       temperature |-> params.temperature,
                       top_p |-> params.top_p,
                       max_tokens |-> params.max_tokens,
                       anthropic_version |-> "bedrock-2023-05-31"]]
        ELSE IF fam = "amazon.titan" THEN
            [err |-> NoError,
             body |-> [inputText |-> prompt,
                       textGenerationConfig |->
                           [temperature |-> params.temperature,
                            topP |-> params.top_p,
                            maxTokenCount |-> params.max_tokens]]]
        ELSE IF fam = "ai21" THEN
            [err |-> NoError,
             body |-> [prompt |-> <<prompt>>,
                       temperature |-> params.temperature,
                       topP |-> params.top_p,
                       maxTokens |-> params.max_tokens]]
        ELSE
            [err |-> BedrockError("Unsupported model: ", model_id),
             body |-> EmptyDict]

DefaultCacheTtl == 3600

\* the cacheConfig block of create_completion
CacheConfig_IgnoreOverride(kwargs) ==
    [enabled |-> TRUE, ttl |-> DefaultCacheTtl]
CacheConfig(kwargs) ==
    [enabled |-> TRUE, ttl |-> Get(kwargs, "cache_ttl", DefaultCacheTtl)]

\* create_completion, lines 140-149: the directives added to the body
AddDirectives(cfg, kwargs, body) ==
    LET b1 == IF cfg.caching_prompt
              THEN body @@ ("cacheConfig" :> CacheConfig(kwargs))
              ELSE body
    IN  IF cfg.guardrail_config # None
        THEN b1 @@ ("guardrailConfig" :> cfg.guardrail_config)
        ELSE b1

(***************************************************************************)
(* Upstream payloads.  A payload is the bytes the transport hands back:    *)
(* json says whether json.loads accepts them, obj is the parsed object.    *)
(* Leaf values (texts, numbers, the usage mapping) are opaque tokens; the  *)
(* token "{}" is the empty mapping the code substitutes for usage.  The    *)
(* lists results / completions and the dicts the code navigates into are   *)
(* sequences and functions.                                                *)
(***************************************************************************)
EmptyMapping == "{}"

Json(obj) == [json |-> TRUE, obj |-> obj]
BadJson == [json |-> FALSE, obj |-> EmptyDict]

\* full responses of invoke_model, per family
ResponseObjects(fam) ==
    IF fam = "amazon.titan" THEN
        { [results |-> << [outputText |-> "Titan response"] >>, inputTokenCount |-> "12"],
          [results |-> << >>],
          EmptyDict }
    ELSE IF fam = "ai21" THEN
        { [completions |-> << [data |-> [text |-> "AI21 response"]] >>,
           usage |-> "{tokens: 7}"],
          [completions |-> << >>],
          EmptyDict }
    ELSE
        { [completion |-> "Test response", stop_reason |-> "stop", usage |-> EmptyMapping],
          EmptyDict }

ResponsePayloads(fam) == { Json(o) : o \in ResponseObjects(fam) } \union {BadJson}

\* chunk objects of invoke_model_with_response_stream, per family
ChunkObjects(fam) ==
    IF fam = "amazon.titan" THEN
        { [outputText |-> "Titan chunk", inputTokenCount |-> "12"],
          EmptyDict }
    ELSE IF fam = "ai21" THEN
        { [completions |-> << [data |-> [text |-> "AI21 chunk"]] >>,
           usage |-> "{tokens: 7}"],
          [completions |-> << >>] }
    ELSE
        { [completion |-> "Test chunk", stop_reason |-> None, usage |-> EmptyMapping],
          EmptyDict }

\* One step of iterating response['body']: a frame carrying a chunk
\* payload, a falsy event, or the iterator raising (the stream broke).
ChunkEvent(p) == [kind |-> "chunk", payload |-> p]
EmptyEvent == [kind |-> "empty", payload |-> BadJson]
BrokenStream == [kind |-> "fail", payload |-> BadJson]

StreamEvents(fam) ==
    { ChunkEvent(Json(o)) : o \in ChunkObjects(fam) }
        \union {ChunkEvent(BadJson), EmptyEvent, BrokenStream}

(***************************************************************************)
(* Model-format adapter: decode.                                           *)
(***************************************************************************)
JSONDecodeError == PyException("JSONDecodeError", <<"Expecting value">>)
IndexError == PyException("IndexError", <<"list index out of range">>)

\* _sync_completion, lines 165-185: [err, value]
DecodeResponse_TopLevelText(model_id, payload) ==
    LET body == payload.obj
    IN  IF ~payload.json THEN [err |-> JSONDecodeError, value |-> EmptyDict]
        ELSE IF FamilyOf(model_id) = "unsupported" THEN
            [err |-> BedrockError("Unsupported model response format: ", model_id),
             value |-> EmptyDict]
        ELSE [err |-> NoError,
              value |-> [completion |-> Get(body, "completion", ""),
                         stop_reason |-> Get(body, "stop_reason", None),
                         usage |-> Get(body, "usage", EmptyMapping)]]
DecodeResponse(model_id, payload) ==
    LET body == payload.obj
        fam == FamilyOf(model_id)
        Ok(v) == [err |-> NoError, value |-> v]
        Fail(e) == [err |-> e, value |-> EmptyDict]
    IN  IF ~payload.json THEN Fail(JSONDecodeError)
        ELSE IF fam = "anthropic.claude" THEN
            Ok([completion |-> Get(body, "completion", ""),
                stop_reason |-> Get(body, "stop_reason", None),
                usage |-> Get(body, "usage", EmptyMapping)])
        ELSE IF fam = "amazon.titan" THEN
            LET results == Get(body, "results", <<EmptyDict>>)
            IN  IF Len(results) = 0 THEN Fail(IndexError)
                ELSE Ok([completion |-> Get(results[1], "outputText", ""),
                         usage |-> Get(body, "inputTokenCount", EmptyMapping)])
        ELSE IF fam = "ai21" THEN
            LET completions == Get(body, "completions", <<EmptyDict>>)
            IN  IF Len(completions) = 0 THEN Fail(IndexError)
                ELSE Ok([completion |->
                             Get(Get(completions[1], "data", EmptyDict), "text", ""),
                         usage |-> Get(body, "usage", EmptyMapping)])
        ELSE Fail(BedrockError("Unsupported model response format: ", model_id))

\* _stream_completion, lines 201-220, for one event of the body:
\* [err, yields, value].  No branch of the chain raises for an unknown
\* family: the event is consumed and nothing is yielded.
DecodeChunk_SkipEmptyText(model_id, event) ==
    LET chunk == event.payload.obj
    IN  IF event.kind # "chunk" \/ ~event.payload.json
           \/ FamilyOf(model_id) # "anthropic.claude"
           \/ Get(chunk, "completion", "") = ""
        THEN [err |-> NoError, yields |-> FALSE, value |-> EmptyDict]
        ELSE [err |-> NoError, yields |-> TRUE,
              value |-> [completion |-> chunk.completion,
                         stop_reason |-> Get(chunk, "stop_reason", None),
                         usage |-> Get(chunk, "usage", EmptyMapping)]]
DecodeChunk(model_id, event) ==
    LET chunk == event.payload.obj
        fam == FamilyOf(model_id)
        Yield(v) == [err |-> NoError, yields |-> TRUE, value |-> v]
        Skip == [err |-> NoError, yields |-> FALSE, value |-> EmptyDict]
        Fail(e) == [err |-> e, yields |-> FALSE, value |-> EmptyDict]
    IN  IF event.kind # "chunk" THEN Skip
        ELSE IF ~event.payload.json THEN Fail(JSONDecodeError)
        ELSE IF fam = "anthropic.claude" THEN
            Yield([completion |-> Get(chunk, "completion", ""),
                   stop_reason |-> Get(chunk, "stop_reason", None),
                   usage |-> Get(chunk, "usage", EmptyMapping)])
        ELSE IF fam = "amazon.titan" THEN
            Yield([completion |-> Get(chunk, "outputText", ""),
                   usage |-> Get(chunk, "inputTokenCount", EmptyMapping)])
        ELSE IF fam = "ai21" THEN
            LET completions == Get(chunk, "completions", <<EmptyDict>>)
            IN  IF Len(completions) = 0 THEN Fail(IndexError)
                ELSE Yield([completion |->
                                Get(Get(completions[1], "data", EmptyDict), "text", ""),
                            usage |-> Get(chunk, "usage", EmptyMapping)])
        ELSE Skip

(***************************************************************************)
(* The transport.                                                          *)
(***************************************************************************)
ErrorCodes ==
    {"ThrottlingException", "ValidationException", "InternalServerException",
     "AccessDeniedException"}

\* what one call of invoke_model / invoke_model_with_response_stream does:
\* answers, raises a ClientError with one of the codes, or raises something
\* that is not a ClientError
TransportOutcomes == {"ok", "Exception"} \union ErrorCodes

\* the exception the transport raises for an outcome
TransportError(outcome) ==
    IF outcome \in ErrorCodes THEN ClientError(outcome)
    ELSE PyException("Exception", <<"ThrottlingException">>)

Request(api, model_id, body) ==
    [api |-> api, modelId |-> model_id, contentType |-> "application/json",
     accept |-> "application/json", body |-> body]

\* the payloads a call with this outcome can come back with (none is read
\* when the call raised)
AnswersTo(model_id, outcome) ==
    IF outcome = "ok" THEN ResponsePayloads(FamilyOf(model_id)) ELSE {BadJson}

\* _sync_completion after self.client.invoke_model was called and behaved
\* as outcome (with the given payload when it answered): [err, value]
SyncCompletion(model_id, outcome, payload) ==
    IF outcome = "ok" THEN DecodeResponse(model_id, payload)
    ELSE [err |-> TransportError(outcome), value |-> EmptyDict]

(***************************************************************************)
(* Retry policy: the decorator _handle_bedrock_error.                      *)
(***************************************************************************)
\* while retries < max_retries
LoopCondition(retries, max_retries) == retries < max_retries

\* if retries == max_retries (after the increment)
Exhausted_OffByOne(retries, max_retries) == retries > max_retries
Exhausted(retries, max_retries) == retries = max_retries

\* wait_time, computed after the increment of retries
WaitTime(cfg, retries) ==
    Min(cfg.retry_max_wait, cfg.retry_min_wait * Pow(cfg.retry_multiplier, retries))

RateLimitExceeded(max_retries) ==
    [type |-> "BedrockError", code |-> "", prefix |-> "Rate limit exceeded after N retries",
     text |-> << >>, n |-> max_retries]

\* the except clauses of the wrapper for an exception e raised by func:
\* [retry, retries, err]; retry = TRUE means sleep and loop again
HandleError_RetryInternal(e, retries, max_retries) ==
    IF e.type = "ClientError" /\ e.code \in {"ThrottlingException", "InternalServerException"}
    THEN [retry |-> ~Exhausted(retries + 1, max_retries), retries |-> retries + 1,
          err |-> IF Exhausted(retries + 1, max_retries)
                  THEN RateLimitExceeded(max_retries) ELSE NoError]
    ELSE [retry |-> FALSE, retries |-> retries,
          err |-> BedrockError("Error during Bedrock API call: ", Str(e))]
HandleError(e, retries, max_retries) ==
    IF e.type = "ClientError" THEN
        IF e.code = "ValidationException" THEN
            [retry |-> FALSE, retries |-> retries,
             err |-> BedrockError("Invalid request: ", Str(e))]
        ELSE IF e.code = "ThrottlingException" THEN
            IF Exhausted(retries + 1, max_retries)
            THEN [retry |-> FALSE, retries |-> retries + 1,
                  err |-> RateLimitExceeded(max_retries)]
            ELSE [retry |-> TRUE, retries |-> retries + 1, err |-> NoError]
        ELSE IF e.code = "InternalServerException" THEN
            [retry |-> FALSE, retries |-> retries,
             err |-> BedrockError("Bedrock internal error: ", Str(e))]
        ELSE
            [retry |-> FALSE, retries |-> retries,
             err |-> BedrockError("Unexpected Bedrock error: ", Str(e))]
    ELSE
        [retry |-> FALSE, retries |-> retries,
         err |-> BedrockError("Error during Bedrock API call: ", Str(e))]

(***************************************************************************)
(* State.  One client (config) serves the logical calls of CallIds; the    *)
(* calls in active are the ones issued in a behaviour.  Everything a call  *)
(* owns is a function of its id.                                           *)
(***************************************************************************)
CallIds == {1, 2}

VARIABLES
    config,     \* self.config of the client
    active,     \* the calls issued by the callers
    pc,         \* where a call is: "idle", "loop", "sleep", "done"
    call,       \* entry point and arguments of the call
    retries,    \* the wrapper's local retries
    sent,       \* requests handed to the transport, in order
    outcomes,   \* what the transport did with each of them
    sleeps,     \* time.sleep calls: the wait and the attempts made before
    result,     \* what the caller got back
    gen,        \* the generator object returned by _stream_completion
    frames,     \* events the generator has drawn from response['body']
    received,   \* what the consumer got from each next() on the generator
    warnings    \* what logger.warning was given, in order

\* the state of the client and its calls
clientVars == <<config, active, pc, call, retries, sent, outcomes, sleeps, result,
                gen, frames, received, warnings>>

NoCall == [entry |-> "", prompt |-> "", stream |-> FALSE, kwargs |-> EmptyDict]
NoGen == [state |-> "none", model_id |-> << >>, body |-> EmptyDict]

Pending == [kind |-> "pending", value |-> EmptyDict, err |-> NoError]
Returned(v) == [kind |-> "value", value |-> v, err |-> NoError]
Raised(e) == [kind |-> "error", value |-> EmptyDict, err |-> e]
ReturnedGenerator == [kind |-> "generator", value |-> EmptyDict, err |-> NoError]
ReturnedNone == [kind |-> "None", value |-> EmptyDict, err |-> NoError]

\* what one next() gives the consumer
Chunk(v) == [kind |-> "chunk", value |-> v, err |-> NoError]
StopIteration == [kind |-> "stop", value |-> EmptyDict, err |-> NoError]

\* the consumer pulls until the stream has ended, and a little further
MaxPulls == MaxFrames + 2

InitCalls(cfgs, ids) ==
    /\ config \in cfgs
    /\ active = ids
    /\ pc = [c \in CallIds |-> "idle"]
    /\ call = [c \in CallIds |-> NoCall]
    /\ retries = [c \in CallIds |-> 0]
    /\ sent = [c \in CallIds |-> << >>]
    /\ outcomes = [c \in CallIds |-> << >>]
    /\ sleeps = [c \in CallIds |-> << >>]
    /\ result = [c \in CallIds |-> Pending]
    /\ gen = [c \in CallIds |-> NoGen]
    /\ frames = [c \in CallIds |-> << >>]
    /\ received = [c \in CallIds |-> << >>]
    /\ warnings = << >>

(***************************************************************************)
(* create_completion under the decorator.                                  *)
(***************************************************************************)
\* the caller invokes create_completion(prompt, stream, **kwargs):
\* the wrapper sets retries = 0 and max_retries and reaches the while
CreateCompletion(c) ==
    /\ pc[c] = "idle"
    /\ \E prompt \in Prompts, stream \in BOOLEAN, kwargs \in KwargsValues :
         call' = [call EXCEPT ![c] = [entry |-> "create_completion", prompt |-> prompt,
                                      stream |-> stream, kwargs |-> kwargs]]
    /\ retries' = [retries EXCEPT ![c] = 0]
    /\ pc' = [pc EXCEPT ![c] = "loop"]
    /\ UNCHANGED <<config, active, sent, outcomes, sleeps, result, gen, frames, received>>

Handle_SharedCounter(c, e) ==
    LET h == HandleError(e, retries[c], MaxRetries(config))
    IN  /\ retries' = [d \in CallIds |-> h.retries]
        /\ IF h.retry
           THEN /\ pc' = [pc EXCEPT ![c] = "sleep"]
                /\ UNCHANGED result
           ELSE /\ pc' = [pc EXCEPT ![c] = "done"]
                /\ result' = [result EXCEPT ![c] = Raised(h.err)]

\* the wrapper after func raised e
Handle(c, e) ==
    LET h == HandleError(e, retries[c], MaxRetries(config))
    IN  /\ retries' = [retries EXCEPT ![c] = h.retries]
        /\ IF h.retry
           THEN /\ pc' = [pc EXCEPT ![c] = "sleep"]
                /\ UNCHANGED result
           ELSE /\ pc' = [pc EXCEPT ![c] = "done"]
                /\ result' = [result EXCEPT ![c] = Raised(h.err)]

\* one iteration of the while loop: try: return func(self, ...)
Attempt(c) ==
    /\ pc[c] = "loop"
    /\ LoopCondition(retries[c], MaxRetries(config))
    /\ LET model_id == StripProvider(config.model)
           enc == PrepareModelKwargs(config, call[c].prompt, call[c].kwargs)
           request_body == AddDirectives(config, call[c].kwargs, enc.body)
       IN  IF enc.err # NoError THEN
               \* _prepare_model_kwargs raised: no transport call
               /\ Handle(c, enc.err)
               /\ UNCHANGED <<sent, outcomes, gen>>
           ELSE IF call[c].stream THEN
               \* _stream_completion is a generator function: calling it runs
               \* none of its body and returns the generator object
               /\ gen' = [gen EXCEPT ![c] = [state |-> "created", model_id |-> model_id,
                                             body |-> request_body]]
               /\ result' = [result EXCEPT ![c] = ReturnedGenerator]
               /\ pc' = [pc EXCEPT ![c] = "done"]
               /\ UNCHANGED <<retries, sent, outcomes>>
           ELSE
               \E outcome \in TransportOutcomes :
               \E payload \in AnswersTo(model_id, outcome) :
                   LET r == SyncCompletion(model_id, outcome, payload)
                   IN  /\ sent' = [sent EXCEPT ![c] =
                                     Append(@, Request("invoke_model", model_id, request_body))]
                       /\ outcomes' = [outcomes EXCEPT ![c] =
                                     Append(@, [outcome |-> outcome, payload |-> payload])]
                       /\ IF r.err = NoError
                          THEN /\ result' = [result EXCEPT ![c] = Returned(r.value)]
                               /\ pc' = [pc EXCEPT ![c] = "done"]
                               /\ UNCHANGED retries
                          ELSE Handle(c, r.err)
                       /\ UNCHANGED gen
    /\ UNCHANGED <<config, active, call, sleeps, frames, received>>

\* time.sleep(wait_time) after a throttled attempt, then back to the while
Sleep(c) ==
    /\ pc[c] = "sleep"
    /\ sleeps' = [sleeps EXCEPT ![c] =
                    Append(@, [wait |-> WaitTime(config, retries[c]),
                               after |-> Len(sent[c])])]
    /\ pc' = [pc EXCEPT ![c] = "loop"]
    /\ UNCHANGED <<config, active, call, retries, sent, outcomes, result, gen,
                   frames, received>>

\* the while condition is false: the wrapper falls off its end
LoopExit(c) ==
    /\ pc[c] = "loop"
    /\ ~LoopCondition(retries[c], MaxRetries(config))
    /\ result' = [result EXCEPT ![c] = ReturnedNone]
    /\ pc' = [pc EXCEPT ![c] = "done"]
    /\ UNCHANGED <<config, active, call, retries, sent, outcomes, sleeps, gen,
                   frames, received>>

(***************************************************************************)
(* The adapter's transport paths called on their own, with any             *)
(* provider-model-id (no decorator around them).                           *)
(***************************************************************************)
DirectBody == [prompt |-> <<"Test prompt">>]

\* self._sync_completion(model_id, request_body)
DirectSyncCompletion(c) ==
    /\ pc[c] = "idle"
    /\ \E model_id \in ProviderModelIds, outcome \in TransportOutcomes :
       \E payload \in AnswersTo(model_id, outcome) :
         LET r == SyncCompletion(model_id, outcome, payload)
         IN  /\ call' = [call EXCEPT ![c] = [NoCall EXCEPT !.entry = "_sync_completion"]]
             /\ gen' = [gen EXCEPT ![c] = [NoGen EXCEPT !.model_id = model_id]]
             /\ sent' = [sent EXCEPT ![c] =
                           Append(@, Request("invoke_model", model_id, DirectBody))]
             /\ outcomes' = [outcomes EXCEPT ![c] =
                           Append(@, [outcome |-> outcome, payload |-> payload])]
             /\ result' = [result EXCEPT ![c] =
                           IF r.err = NoError THEN Returned(r.value) ELSE Raised(r.err)]
    /\ pc' = [pc EXCEPT ![c] = "done"]
    /\ UNCHANGED <<config, active, retries, sleeps, frames, received>>

\* self._stream_completion(model_id, request_body): returns the generator
DirectStreamCompletion(c) ==
    /\ pc[c] = "idle"
    /\ \E model_id \in ProviderModelIds :
         gen' = [gen EXCEPT ![c] = [state |-> "created", model_id |-> model_id,
                                    body |-> DirectBody]]
    /\ call' = [call EXCEPT ![c] = [NoCall EXCEPT !.entry = "_stream_completion",
                                                  !.stream = TRUE]]
    /\ result' = [result EXCEPT ![c] = ReturnedGenerator]
    /\ pc' = [pc EXCEPT ![c] = "done"]
    /\ UNCHANGED <<config, active, retries, sent, outcomes, sleeps, frames, received>>

(***************************************************************************)
(* The generator of _stream_completion, driven by the consumer's next().   *)
(***************************************************************************)
EventStreamError == PyException("EventStreamError", <<"stream broke">>)

\* one pass of `for event in response.get('body')` for what the iterator
\* did: the iterator raising leaves the generator with that exception,
\* an event goes through the body of the loop
LoopStep_SwallowBreak(model_id, event) ==
    IF event.kind = "fail"
    THEN [err |-> NoError, yields |-> FALSE, value |-> EmptyDict]
    ELSE DecodeChunk(model_id, event)
LoopStep(model_id, event) ==
    IF event.kind = "fail"
    THEN [err |-> EventStreamError, yields |-> FALSE, value |-> EmptyDict]
    ELSE DecodeChunk(model_id, event)

\* an event the loop passes over without yielding or raising
Silent(model_id, event) ==
    LET s == LoopStep(model_id, event) IN s.err = NoError /\ ~s.yields

\* the generator runs from where it stands to its next yield, to the end of
\* the stream or to an exception; evs are the events the stream delivers
\* meanwhile, ended says that the stream ends after them
RunToYield(c, evs, ended) ==
    LET n == Len(evs)
        model_id == gen[c].model_id
    IN  /\ \A i \in 1..(n - 1) : Silent(model_id, evs[i])
        /\ frames' = [frames EXCEPT ![c] = @ \o evs]
        /\ IF ended THEN
               /\ IF n = 0 THEN TRUE ELSE Silent(model_id, evs[n])
               /\ received' = [received EXCEPT ![c] = Append(@, StopIteration)]
               /\ gen' = [gen EXCEPT ![c].state = "finished"]
           ELSE
               /\ n >= 1
               /\ ~Silent(model_id, evs[n])
               /\ LET s == LoopStep(model_id, evs[n])
                  IN  IF s.err # NoError THEN
                          /\ received' = [received EXCEPT ![c] = Append(@, Raised(s.err))]
                          /\ gen' = [gen EXCEPT ![c].state = "finished"]
                      ELSE
                          /\ received' = [received EXCEPT ![c] = Append(@, Chunk(s.value))]
                          /\ gen' = [gen EXCEPT ![c].state = "open"]

\* next() on the generator.  The first next() runs the body from its top:
\* it makes the invoke_model_with_response_stream call and goes on to the
\* first yield.
Pull(c) ==
    /\ result[c].kind = "generator"
    /\ Len(received[c]) < MaxPulls
    /\ IF gen[c].state = "finished" THEN
           /\ received' = [received EXCEPT ![c] = Append(@, StopIteration)]
           /\ UNCHANGED <<sent, outcomes, gen, frames>>
       ELSE
           \E outcome \in IF gen[c].state = "created" THEN TransportOutcomes ELSE {"ok"} :
               /\ IF gen[c].state = "created"
                  THEN /\ sent' = [sent EXCEPT ![c] =
                                Append(@, Request("invoke_model_with_response_stream",
                                                  gen[c].model_id, gen[c].body))]
                       /\ outcomes' = [outcomes EXCEPT ![c] =
                                Append(@, [outcome |-> outcome, payload |-> BadJson])]
                  ELSE UNCHANGED <<sent, outcomes>>
               /\ IF outcome # "ok" THEN
                      /\ received' = [received EXCEPT ![c] =
                                        Append(@, Raised(TransportError(outcome)))]
                      /\ gen' = [gen EXCEPT ![c].state = "finished"]
                      /\ UNCHANGED frames
                  ELSE
                      \E evs \in SeqsUpTo(StreamEvents(FamilyOf(gen[c].model_id)),
                                          MaxFrames - Len(frames[c])),
                         ended \in BOOLEAN :
                          RunToYield(c, evs, ended)
    /\ UNCHANGED <<config, active, pc, call, retries, sleeps, result>>

(***************************************************************************)
(* list_models: the advisory catalog query.                                *)
(***************************************************************************)
\* what the try block of list_models meets: the client_name attribute of
\* the client's config is missing, boto3.client raises,
\* list_foundation_models raises, or the catalog answers
CatalogOutcomes ==
    {"ok", "AttributeError", "NoCredentialsError", "AccessDeniedException"}

CatalogError(outcome) ==
    IF outcome = "AccessDeniedException" THEN ClientError(outcome)
    ELSE PyException(outcome, <<outcome>>)

\* entries of response['modelSummaries']; one lacks its modelId
ModelSummaries ==
    { [modelId |-> <<"anthropic.claude", "-3-sonnet">>],
      [modelId |-> <<"amazon.titan", "-text">>],
      EmptyDict }

\* the catalog's answers: with the list, or without the key
CatalogResponses ==
    { [modelSummaries |-> l] : l \in SeqsUpTo(ModelSummaries, 2) } \union {EmptyDict}

CatalogAnswersTo(outcome) ==
    IF outcome = "ok" THEN { Json(r) : r \in CatalogResponses } ELSE {BadJson}

KeyError(key) == PyException("KeyError", <<key>>)

\* the body of the try block, lines 226-239: [err, value]
ListFoundationModels(outcome, response) ==
    IF outcome # "ok" THEN [err |-> CatalogError(outcome), value |-> << >>]
    ELSE IF "modelSummaries" \notin DOMAIN response
    THEN [err |-> KeyError("modelSummaries"), value |-> << >>]
    ELSE LET l == response.modelSummaries
         IN  IF \E i \in DOMAIN l : "modelId" \notin DOMAIN l[i]
             THEN [err |-> KeyError("modelId"), value |-> << >>]
             ELSE [err |-> NoError,
                   value |-> [i \in DOMAIN l |-> <<ProviderPrefix>> \o l[i].modelId]]

\* list_models with its except clause: [err, value, warning]; err is what
\* leaves the method, warning what goes to the logger
ListModelsReturn_KeyErrorEscapes(outcome, response) ==
    LET r == ListFoundationModels(outcome, response)
    IN  IF r.err = NoError THEN [err |-> NoError, value |-> r.value, warning |-> << >>]
        ELSE IF r.err.type = "KeyError"
        THEN [err |-> r.err, value |-> << >>, warning |-> << >>]
        ELSE [err |-> NoError, value |-> << >>,
              warning |-> <<[msg |-> "Failed to list Bedrock models: ", arg |-> Str(r.err)]>>]
ListModelsReturn(outcome, response) ==
    LET r == ListFoundationModels(outcome, response)
    IN  IF r.err = NoError THEN [err |-> NoError, value |-> r.value, warning |-> << >>]
        ELSE [err |-> NoError, value |-> << >>,
              warning |-> <<[msg |-> "Failed to list Bedrock models: ", arg |-> Str(r.err)]>>]

\* client.list_models()
ListModels(c) ==
    /\ pc[c] = "idle"
    /\ \E outcome \in CatalogOutcomes :
       \E payload \in CatalogAnswersTo(outcome) :
         LET r == ListModelsReturn(outcome, payload.obj)
         IN  /\ outcomes' = [outcomes EXCEPT ![c] =
                                Append(@, [outcome |-> outcome, payload |-> payload])]
             /\ result' = [result EXCEPT ![c] =
                                IF r.err = NoError THEN Returned(r.value) ELSE Raised(r.err)]
             /\ warnings' = warnings \o r.warning
    /\ call' = [call EXCEPT ![c] = [NoCall EXCEPT !.entry = "list_models"]]
    /\ pc' = [pc EXCEPT ![c] = "done"]
    /\ UNCHANGED <<config, active, retries, sent, sleeps, gen, frames, received>>

(***************************************************************************)
(* The provider registry (src/providers/loader.py): CustomProviderLoader   *)
(* validates provider declaration files and keeps the validated            *)
(* declarations by model_name.  A declaration as yaml.safe_load returns    *)
(* it is a dict holding the keys the file gives; scalar values are string  *)
(* tokens.                                                                 *)
(***************************************************************************)
ModelNames == {"m1", "m2"}

\* module-qualified class references: one that importlib resolves (the
\* fixture of tests/fixtures/custom_provider.py) and one that it does not
ResolvableRefs == {"tests.fixtures.custom_provider.CustomProvider"}
UnresolvableRefs == {"invalid.module.Class"}

\* a key the file does not give
Absent == "<absent>"

\* the dict without the keys the file does not give
Prune(r) == [k \in {f \in DOMAIN r : r[f] # Absent} |-> r[k]]

\* the declarations the callers load: well-formed ones, one that sets an
\* optional field and an empty provider_class, ones whose provider_class
\* does not resolve, and ones that violate the schema
Declarations ==
    { Prune(r) : r \in
        [model_name : ModelNames, api_base : {"https://api.example.com"},
         api_key : {"key-1", "key-2"},
         provider_class : ResolvableRefs \union {Absent}, timeout : {Absent}]
        \union
        [model_name : {"m1"}, api_base : {"https://api.example.com"},
         api_key : {"key-2"}, provider_class : {""}, timeout : {"60"}]
        \union
        [model_name : ModelNames, api_base : {"https://api.example.com"},
         api_key : {"key-1"}, provider_class : UnresolvableRefs, timeout : {Absent}]
        \union
        [model_name : {"m1", Absent}, api_base : {"https://api.example.com", Absent},
         api_key : {Absent}, provider_class : {Absent}, timeout : {Absent}]
        \union
        [model_name : {"m1"}, api_base : {"https://api.example.com"},
         api_key : {"key-1"}, provider_class : {Absent}, timeout : {"abc"}] }

\* what a path names: nothing, an empty document (safe_load gives None),
\* or a declaration
NoFile == [exists |-> FALSE, mapping |-> FALSE, decl |-> EmptyDict]
EmptyFile == [exists |-> TRUE, mapping |-> FALSE, decl |-> EmptyDict]
DeclarationFile(d) == [exists |-> TRUE, mapping |-> TRUE, decl |-> d]
Files == {EmptyFile} \union { DeclarationFile(d) : d \in Declarations }

\* ProviderConfig: the fields with a default, and the default
ProviderConfigDefaults ==
    [provider_class |-> None, auth_type |-> "bearer", custom_headers |-> "{}",
     params |-> "{}", timeout |-> "30", max_retries |-> "3",
     temperature |-> "0.7", max_tokens |-> None, stream |-> "False"]

RequiredFields == <<"model_name", "api_base", "api_key">>
IntegerTokens == {"30", "60"}

\* one line of str(ValidationError) per violated field, in field order
RECURSIVE MissingFields(_, _)
MissingFields(decl, fields) ==
    IF fields = << >> THEN << >>
    ELSE (IF Head(fields) \in DOMAIN decl THEN << >>
          ELSE <<Head(fields), "field required">>)
         \o MissingFields(decl, Tail(fields))

Violations(decl) ==
    MissingFields(decl, RequiredFields)
    \o (IF "timeout" \in DOMAIN decl /\ decl.timeout \notin IntegerTokens
        THEN <<"timeout", "value is not a valid integer">> ELSE << >>)

\* ProviderConfig(**config).dict(): every field, defaults filled in
ProviderConfigDict(decl) ==
    [k \in DOMAIN ProviderConfigDefaults \union {"model_name", "api_base", "api_key"} |->
        IF k \in DOMAIN decl THEN decl[k] ELSE ProviderConfigDefaults[k]]

ValueError(prefix, text) ==
    [type |-> "ValueError", code |-> "", prefix |-> prefix, text |-> text, n |-> 0]
FileNotFoundError ==
    [type |-> "FileNotFoundError", code |-> "", prefix |-> "Provider file ",
     text |-> <<"not found">>, n |-> 0]
TypeError == PyException("TypeError", <<"argument after ** must be a mapping">>)

\* no validated declaration
NoConfig ==
    [k \in DOMAIN ProviderConfigDefaults \union {"model_name", "api_base", "api_key"} |-> None]

\* load_provider up to the validated declaration: [err, cfg]
ValidateDeclaration_ApiKeyOptional(file) ==
    IF ~file.exists THEN [err |-> FileNotFoundError, cfg |-> NoConfig]
    ELSE IF ~file.mapping THEN [err |-> TypeError, cfg |-> NoConfig]
    ELSE LET decl == IF "api_key" \in DOMAIN file.decl THEN file.decl
                     ELSE [k \in DOMAIN file.decl \union {"api_key"} |->
                              IF k = "api_key" THEN None ELSE file.decl[k]]
         IN  IF Violations(decl) # << >>
             THEN [err |-> ValueError("Invalid provider configuration: ",
                                      <<"validation errors for ProviderConfig">>
                                          \o Violations(decl)),
                   cfg |-> NoConfig]
             ELSE [err |-> NoError, cfg |-> ProviderConfigDict(decl)]

ValidateDeclaration(file) ==
    IF ~file.exists THEN [err |-> FileNotFoundError, cfg |-> NoConfig]
    ELSE IF ~file.mapping THEN [err |-> TypeError, cfg |-> NoConfig]
    ELSE IF Violations(file.decl) # << >>
    THEN [err |-> ValueError("Invalid provider configuration: ",
                             <<"validation errors for ProviderConfig">>
                                 \o Violations(file.decl)),
          cfg |-> NoConfig]
    ELSE [err |-> NoError, cfg |-> ProviderConfigDict(file.decl)]

\* if validated_config.get('provider_class'):
NeedsCustomProvider_Never(cfg) == FALSE

NeedsCustomProvider(cfg) == cfg.provider_class \notin {None, ""}

\* rsplit, import_module, getattr: the class object, or the exception
ResolveClass_AnyRef(ref) == [err |-> NoError, class |-> <<"class", ref>>]

ResolveClass(ref) ==
    IF ref \in ResolvableRefs
    THEN [err |-> NoError, class |-> <<"class", ref>>]
    ELSE [err |-> PyException("ModuleNotFoundError", <<"No module named", ref>>),
          class |-> << >>]

\* d[k] = v on a dict
SetItem(d, k, v) == [x \in DOMAIN d \union {k} |-> IF x = k THEN v ELSE d[x]]

\* self.loaded_models[name] = validated_config
Insert_KeepEarlier(loaded, name, cfg) ==
    IF name \in DOMAIN loaded THEN loaded ELSE SetItem(loaded, name, cfg)

Insert(loaded, name, cfg) == SetItem(loaded, name, cfg)

\* get_model_config: self.loaded_models.get(model_name)
GetModelConfig(loaded, name) == Get(loaded, name, None)

\* the names list_models shows
LoadedModelNames(loaded) == DOMAIN loaded

(***************************************************************************)
(* The shared provider-resolution mechanism (the litellm calls of          *)
(* loader.py): a mapping from model name to provider configuration and     *)
(* one from model name to provider class.  A call either takes effect or   *)
(* raises and changes nothing.                                             *)
(***************************************************************************)
MechanismOutcomes == {"ok", "raises"}
MechanismError == PyException("Exception", <<"provider registration failed">>)

RegisterProvider(registered, name, cfg) == SetItem(registered, name, cfg)
RegisterProviderClass(classes, name, class) == SetItem(classes, name, class)
GetProvider(registered, name) == Get(registered, name, None)

LoaderIds == {1, 2}

VARIABLES
    providers_dir,    \* the declaration files the callers can name
    loaders,          \* the threads that call load_provider
    loaded_models,    \* CustomProviderLoader.loaded_models
    registered,       \* the mechanism: model name -> provider configuration
    provider_classes, \* the mechanism: model name -> provider class
    lpc,              \* where each thread is in load_provider
    lfile,            \* what the thread's yaml_path names
    lcfg,             \* the thread's validated_config
    lres,             \* what load_provider gave the thread
    before,           \* history: the shared state when the call began
    lastOk            \* history: name -> source of its last successful load

regVars == <<providers_dir, loaders, loaded_models, registered, provider_classes,
             lpc, lfile, lcfg, lres, before, lastOk>>

Shared == [loaded_models |-> loaded_models, registered |-> registered,
           provider_classes |-> provider_classes]

\* CustomProviderLoader(): no declaration loaded
InitRegistry(dir, ts) ==
    /\ providers_dir = dir
    /\ loaders = ts
    /\ loaded_models = EmptyDict
    /\ registered = EmptyDict
    /\ provider_classes = EmptyDict
    /\ lpc = [t \in LoaderIds |-> "idle"]
    /\ lfile = [t \in LoaderIds |-> NoFile]
    /\ lcfg = [t \in LoaderIds |-> NoConfig]
    /\ lres = [t \in LoaderIds |-> Pending]
    /\ before = [t \in LoaderIds |->
                    [loaded_models |-> EmptyDict, registered |-> EmptyDict,
                     provider_classes |-> EmptyDict]]
    /\ lastOk = EmptyDict

\* the call fails with e
LoadFails(t, e) ==
    /\ lres' = [lres EXCEPT ![t] = Raised(e)]
    /\ lpc' = [lpc EXCEPT ![t] = "done"]

\* load_provider, lines 28-47: the path, the document, the validation
LoadProvider(t) ==
    /\ lpc[t] \in {"idle", "done"}
    /\ \E file \in providers_dir \union {NoFile} :
         LET v == ValidateDeclaration(file)
         IN  /\ lfile' = [lfile EXCEPT ![t] = file]
             /\ lcfg' = [lcfg EXCEPT ![t] = v.cfg]
             /\ IF v.err # NoError
                THEN LoadFails(t, v.err)
                ELSE /\ lres' = [lres EXCEPT ![t] = Pending]
                     /\ lpc' = [lpc EXCEPT ![t] =
                                   IF NeedsCustomProvider(v.cfg)
                                   THEN "register_class" ELSE "register"]
    /\ before' = [before EXCEPT ![t] = Shared]
    /\ UNCHANGED <<providers_dir, loaders, loaded_models, registered,
                   provider_classes, lastOk>>

\* _register_custom_provider, lines 58-69
RegisterCustomProvider(t) ==
    /\ lpc[t] = "register_class"
    /\ LET r == ResolveClass(lcfg[t].provider_class)
       IN  \E outcome \in MechanismOutcomes :
             LET e == IF r.err # NoError THEN r.err
                      ELSE IF outcome = "raises" THEN MechanismError
                      ELSE NoError
             IN  IF e # NoError
                 THEN /\ LoadFails(t, ValueError("Failed to register custom provider: ",
                                                 Str(e)))
                      /\ UNCHANGED provider_classes
                 ELSE /\ provider_classes' =
                            RegisterProviderClass(provider_classes,
                                                  lcfg[t].model_name, r.class)
                      /\ lpc' = [lpc EXCEPT ![t] = "register"]
                      /\ UNCHANGED lres
    /\ UNCHANGED <<providers_dir, loaders, loaded_models, registered,
                   lfile, lcfg, before, lastOk>>

\* litellm.register_provider, lines 50-53
RegisterWithLiteLLM(t) ==
    /\ lpc[t] = "register"
    /\ \E outcome \in MechanismOutcomes :
         IF outcome = "raises"
         THEN /\ LoadFails(t, MechanismError)
              /\ UNCHANGED registered
         ELSE /\ registered' = RegisterProvider(registered, lcfg[t].model_name, lcfg[t])
              /\ lpc' = [lpc EXCEPT ![t] = "insert"]
              /\ UNCHANGED lres
    /\ UNCHANGED <<providers_dir, loaders, loaded_models, provider_classes,
                   lfile, lcfg, before, lastOk>>

\* lines 55-56: the entry is stored and the declaration returned
InsertAndReturn(t) ==
    /\ lpc[t] = "insert"
    /\ loaded_models' = Insert(loaded_models, lcfg[t].model_name, lcfg[t])
    /\ lres' = [lres EXCEPT ![t] = Returned(lcfg[t])]
    /\ lpc' = [lpc EXCEPT ![t] = "done"]
    /\ lastOk' = SetItem(lastOk, lcfg[t].model_name, lfile[t].decl)
    /\ UNCHANGED <<providers_dir, loaders, registered, provider_classes,
                   lfile, lcfg, before>>

vars == <<clientVars, regVars>>

\* a client constructed with any configuration, serving one call
Init == InitCalls(Configs, {1}) /\ InitRegistry({}, {})

\* one step of one call on the client
Next ==
    \E c \in active :
        \/ CreateCompletion(c) /\ UNCHANGED <<warnings, regVars>>
        \/ Attempt(c) /\ UNCHANGED <<warnings, regVars>>
        \/ Sleep(c) /\ UNCHANGED <<warnings, regVars>>
        \/ LoopExit(c) /\ UNCHANGED <<warnings, regVars>>
        \/ DirectSyncCompletion(c) /\ UNCHANGED <<warnings, regVars>>
        \/ DirectStreamCompletion(c) /\ UNCHANGED <<warnings, regVars>>
        \/ Pull(c) /\ UNCHANGED <<warnings, regVars>>
        \/ ListModels(c) /\ UNCHANGED regVars

Spec == Init /\ [][Next]_vars

\* a configuration for the client that stays idle beside the registry
IdleClientConfig ==
    CHOOSE cfg \in Configs : cfg.model = <<"bedrock/", "anthropic.claude", "-3-sonnet">>
                             /\ cfg.num_retries = Unset /\ ~cfg.caching_prompt
                             /\ cfg.guardrail_config = None

\* one thread loads declarations, one call after the other
InitSequential == InitCalls({IdleClientConfig}, {}) /\ InitRegistry(Files, {1})

\* one step of one load_provider call
NextRegistry ==
    \E t \in loaders :
        \/ LoadProvider(t) /\ UNCHANGED clientVars
        \/ RegisterCustomProvider(t) /\ UNCHANGED clientVars
        \/ RegisterWithLiteLLM(t) /\ UNCHANGED clientVars
        \/ InsertAndReturn(t) /\ UNCHANGED clientVars

SpecRegistry == InitSequential /\ [][NextRegistry]_vars

\* the declarations two threads load at the same time
ConcurrentDeclarations ==
    { d \in Declarations :
        /\ {"model_name", "api_base", "api_key"} \subseteq DOMAIN d
        /\ "timeout" \notin DOMAIN d
        /\ d.model_name = "m1"
        /\ "provider_class" \in DOMAIN d =>
              d.provider_class \in ResolvableRefs /\ d.api_key = "key-1" }

InitConcurrent ==
    /\ InitCalls({IdleClientConfig}, {})
    /\ InitRegistry({ DeclarationFile(d) : d \in ConcurrentDeclarations }, {1, 2})

SpecRegistryConcurrent == InitConcurrent /\ [][NextRegistry]_vars

\* the configurations of the client that serves two calls at the same time
ConcurrentConfigs ==
    { cfg \in Configs :
        /\ cfg.model = <<"bedrock/", "anthropic.claude", "-3-sonnet">>
        /\ cfg.num_retries \in {Unset, IntVal(2), IntVal(-1)}
        /\ ~cfg.caching_prompt
        /\ cfg.guardrail_config = None }

\* one client, two create_completion calls in flight
InitConcurrentCalls == InitCalls(ConcurrentConfigs, {1, 2}) /\ InitRegistry({}, {})

\* one step of the wrapper of one of the calls
NextCalls ==
    \E c \in active :
        \/ CreateCompletion(c) /\ UNCHANGED <<warnings, regVars>>
        \/ Attempt(c) /\ UNCHANGED <<warnings, regVars>>
        \/ Sleep(c) /\ UNCHANGED <<warnings, regVars>>
        \/ LoopExit(c) /\ UNCHANGED <<warnings, regVars>>

SpecConcurrentCalls == InitConcurrentCalls /\ [][NextCalls]_vars

TypeOK ==
    /\ config \in Configs
    /\ active \subseteq CallIds
    /\ \A c \in CallIds :
        /\ pc[c] \in {"idle", "loop", "sleep", "done"}
        /\ result[c].kind \in {"pending", "value", "error", "generator", "None"}
        /\ gen[c].state \in {"none", "created", "open", "finished"}
        /\ Len(frames[c]) <= MaxFrames
        /\ Len(received[c]) <= MaxPulls

(***************************************************************************)
(* Vocabulary of the properties.                                           *)
(***************************************************************************)
\* c is a create_completion call (through the decorator)
IsCompletion(c) == c \in active /\ call[c].entry = "create_completion"
IsSyncCompletion(c) == IsCompletion(c) /\ ~call[c].stream
IsStreamCompletion(c) == IsCompletion(c) /\ call[c].stream

Throttled(o) == o.outcome = "ThrottlingException"
Answered(o) == o.outcome = "ok"

\* the first k transport attempts of c throttled
FirstThrottled(c, k) ==
    /\ k <= Len(outcomes[c])
    /\ \A i \in 1..k : Throttled(outcomes[c][i])

\* the provider-model-id of a model identifier
ExpectedModelId(model) ==
    IF Len(model) >= 1 /\ Head(model) = ProviderPrefix THEN Tail(model) ELSE model

\* the text field a family designates, '' when it is absent
DesignatedText(fam, obj, streamed) ==
    IF fam = "anthropic.claude" THEN
        IF "completion" \in DOMAIN obj THEN obj.completion ELSE ""
    ELSE IF fam = "amazon.titan" THEN
        IF streamed
        THEN IF "outputText" \in DOMAIN obj THEN obj.outputText ELSE ""
        ELSE IF "results" \in DOMAIN obj /\ "outputText" \in DOMAIN obj.results[1]
             THEN obj.results[1].outputText ELSE ""
    ELSE
        IF "completions" \in DOMAIN obj /\ "data" \in DOMAIN obj.completions[1]
        THEN obj.completions[1].data.text ELSE ""

\* a response the family's decoder accepts
WellFormed(payload) ==
    /\ payload.json
    /\ "results" \in DOMAIN payload.obj => Len(payload.obj.results) >= 1
    /\ "completions" \in DOMAIN payload.obj => Len(payload.obj.completions) >= 1

ConfigFamily == FamilyOf(ExpectedModelId(config.model))

(***************************************************************************)
(* C1.  With effective max_retries N >= 1, a non-streaming                 *)
(* create_completion whose transport call throttles on every attempt       *)
(* makes exactly N transport attempts, sleeps exactly N-1 times (the i-th  *)
(* sleep between attempts i and i+1, none after the last attempt) and then *)
(* raises "Rate limit exceeded after N retries".                           *)
(***************************************************************************)
C1_ThrottledOnEveryAttempt ==
    \A c \in active :
        LET N == MaxRetries(config)
            k == Len(outcomes[c])
        IN  (IsSyncCompletion(c) /\ N >= 1 /\ k >= 1 /\ FirstThrottled(c, k)) =>
                /\ Len(sent[c]) = k
                /\ k <= N
                /\ \A i \in DOMAIN sleeps[c] : sleeps[c][i].after = i /\ i < N
                /\ pc[c] = "done" =>
                       /\ k = N
                       /\ Len(sleeps[c]) = N - 1
                       /\ result[c] = Raised(RateLimitExceeded(N))
                       /\ result[c].err.n = N
                /\ pc[c] = "sleep" => (k < N /\ Len(sleeps[c]) = k - 1)
                /\ pc[c] = "loop" => (k < N /\ Len(sleeps[c]) = k)

\* three attempts throttled with the default budget: the call has raised
C1_Witness ==
    \E c \in active :
        /\ IsSyncCompletion(c) /\ ~config.num_retries.set
        /\ pc[c] = "done" /\ FirstThrottled(c, 3) /\ Len(outcomes[c]) = 3
        /\ Len(sleeps[c]) = 2
        /\ result[c].kind = "error"

(***************************************************************************)
(* C2.  For 0 <= k < max_retries, a non-streaming create_completion whose  *)
(* transport call throttles on its first k attempts and then answers with  *)
(* a well-formed response returns the decoded result after exactly k+1     *)
(* transport attempts, k sleeps between them; every attempt is made with   *)
(* the model identifier stripped of its bedrock/ prefix.                   *)
(***************************************************************************)
C2_ThrottledThenSucceeds ==
    \A c \in active :
        IsSyncCompletion(c) =>
            /\ \A i \in DOMAIN sent[c] :
                   /\ sent[c][i].api = "invoke_model"
                   /\ sent[c][i].modelId = ExpectedModelId(config.model)
            /\ \A k \in 0..Len(outcomes[c]) :
                   (/\ k + 1 \in DOMAIN outcomes[c]
                    /\ FirstThrottled(c, k)
                    /\ Answered(outcomes[c][k + 1])
                    /\ WellFormed(outcomes[c][k + 1].payload)) =>
                       /\ k < MaxRetries(config)
                       /\ Len(outcomes[c]) = k + 1
                       /\ Len(sent[c]) = k + 1
                       /\ Len(sleeps[c]) = k
                       /\ pc[c] = "done"
                       /\ result[c].kind = "value"
                       /\ result[c].value.completion =
                              DesignatedText(ConfigFamily, outcomes[c][k + 1].payload.obj, FALSE)
                       /\ "usage" \in DOMAIN result[c].value

\* two throttles, then the answer of the test, under the default budget
C2_Witness ==
    \E c \in active :
        /\ IsSyncCompletion(c) /\ MaxRetries(config) = 3
        /\ Head(config.model) = ProviderPrefix
        /\ Len(outcomes[c]) = 3 /\ FirstThrottled(c, 2) /\ Answered(outcomes[c][3])
        /\ result[c].kind = "value"
        /\ result[c].value.completion = "Test response"
        /\ result[c].value.stop_reason = "stop"

(***************************************************************************)
(* C3.  A failure of an attempt other than throttling ends the call on     *)
(* that attempt, also after throttled attempts: nothing is sent and no     *)
(* sleep is made afterwards, and the error raised tells the cause apart    *)
(* (Invalid request / Bedrock internal error / Unexpected Bedrock error /  *)
(* Error during Bedrock API call) and carries the text of the original.    *)
(***************************************************************************)
\* the message prefix the retry policy gives a failure of the transport
CausePrefix(outcome) ==
    CASE outcome = "ValidationException" -> "Invalid request: "
      [] outcome = "InternalServerException" -> "Bedrock internal error: "
      [] outcome = "Exception" -> "Error during Bedrock API call: "
      [] OTHER -> "Unexpected Bedrock error: "

C3_FatalErrorsEndTheCall ==
    \A c \in active :
        /\ IsCompletion(c) =>
              \* only a throttled attempt is ever followed by another one
              /\ \A i \in 1..(Len(outcomes[c]) - 1) : Throttled(outcomes[c][i])
              /\ Len(sleeps[c]) <= Len(sent[c])
              /\ \A i \in DOMAIN sleeps[c] : Throttled(outcomes[c][sleeps[c][i].after])
        /\ (IsSyncCompletion(c) /\ Len(outcomes[c]) >= 1) =>
              LET k == Len(outcomes[c])
                  last == outcomes[c][k]
              IN  /\ (~Throttled(last) /\ ~Answered(last)) =>
                         /\ pc[c] = "done"
                         /\ Len(sent[c]) = k
                         /\ Len(sleeps[c]) = k - 1
                         /\ result[c] = Raised(BedrockError(CausePrefix(last.outcome),
                                                      Str(TransportError(last.outcome))))
                  \* the response could not be decoded
                  /\ (Answered(last) /\ ~WellFormed(last.payload)) =>
                         /\ pc[c] = "done"
                         /\ Len(sleeps[c]) = k - 1
                         /\ result[c].kind = "error"
                         /\ result[c].err.prefix = "Error during Bedrock API call: "
        \* the request could not be encoded
        /\ (IsCompletion(c) /\ ConfigFamily = "unsupported" /\ pc[c] = "done"
              /\ MaxRetries(config) >= 1) =>
              /\ sent[c] = << >> /\ sleeps[c] = << >>
              /\ result[c].kind = "error"
              /\ result[c].err.prefix = "Error during Bedrock API call: "
        /\ (IsStreamCompletion(c) /\ Len(outcomes[c]) >= 1
              /\ ~Answered(outcomes[c][1])) =>
              /\ Len(sent[c]) = 1 /\ sleeps[c] = << >>
              /\ received[c][1].kind = "error"
              /\ received[c][1].err.text = TransportError(outcomes[c][1].outcome).text

\* an internal error on the second attempt, after a throttled first one
C3_Witness ==
    \E c \in active :
        /\ IsSyncCompletion(c) /\ pc[c] = "done"
        /\ Len(outcomes[c]) = 2
        /\ Throttled(outcomes[c][1])
        /\ outcomes[c][2].outcome = "InternalServerException"
        /\ result[c].err.prefix = "Bedrock internal error: "
        /\ Len(sleeps[c]) = 1

(***************************************************************************)
(* C4.  For every configured retry count a non-streaming                   *)
(* create_completion makes a bounded number of attempts and ends only by   *)
(* returning a result or by raising BedrockError; it never returns with    *)
(* no result and no error.                                                 *)
(***************************************************************************)
C4_NeverGivesUpSilently ==
    \A c \in active :
        IsSyncCompletion(c) =>
            /\ Len(sent[c]) <= DefaultMaxRetries
            /\ pc[c] = "done" =>
                   \/ result[c].kind = "value"
                   \/ result[c].kind = "error" /\ result[c].err.type = "BedrockError"

(***************************************************************************)
(* C5.  Every failure of a create_completion call, streaming or not,       *)
(* reaches the caller or the consumer of the stream as a BedrockError.     *)
(***************************************************************************)
C5_OnlyBedrockErrorCrossesTheBoundary ==
    \A c \in active :
        IsCompletion(c) =>
            /\ result[c].kind = "error" => result[c].err.type = "BedrockError"
            /\ \A i \in DOMAIN received[c] :
                   received[c][i].kind = "error" =>
                       received[c][i].err.type = "BedrockError"

(***************************************************************************)
(* C6.  In streaming mode the call that opens the stream is retried: a     *)
(* throttled opening is followed by a sleep and another opening while the  *)
(* budget lasts, so the consumer sees a failure for throttling only as     *)
(* the rate-limit error after max_retries openings.                        *)
(***************************************************************************)
C6_StreamOpeningIsRetried ==
    \A c \in active :
        (/\ IsStreamCompletion(c)
         /\ Len(outcomes[c]) >= 1
         /\ FirstThrottled(c, Len(outcomes[c]))
         /\ received[c] # << >>) =>
            /\ Len(sent[c]) = MaxRetries(config)
            /\ Len(sleeps[c]) = MaxRetries(config) - 1
            /\ received[c][1] = Raised(RateLimitExceeded(MaxRetries(config)))

(***************************************************************************)
(* C7.  For an upstream stream of N frames, consuming the sequence         *)
(* returned by create_completion(stream=True) yields exactly N chunks,     *)
(* the i-th chunk decoded from the i-th frame, and then the sequence ends  *)
(* with no further value and no error.  (A frame is an event that carries  *)
(* a chunk payload.)                                                       *)
(***************************************************************************)
IsFrame(event) == event.kind = "chunk"
IsChunk(r) == r.kind = "chunk"
IsFailure(r) == r.kind = "error"
IsStop(r) == r.kind = "stop"
NoFailure(c) == \A i \in DOMAIN received[c] : ~IsFailure(received[c][i])

C7_OneChunkPerFrameInOrder ==
    \A c \in active :
        (IsStreamCompletion(c) /\ NoFailure(c)) =>
            LET fr == SelectSeq(frames[c], IsFrame)
                ch == SelectSeq(received[c], IsChunk)
                N == Len(fr)
            IN  /\ Len(ch) = N
                /\ \A i \in 1..N :
                       /\ received[c][i] = ch[i]
                       /\ ch[i].value.completion =
                              DesignatedText(ConfigFamily, fr[i].payload.obj, TRUE)
                       /\ "usage" \in DOMAIN ch[i].value
                /\ \A i \in (N + 1)..Len(received[c]) :
                       IsStop(received[c][i]) /\ gen[c].state = "finished"
                /\ gen[c].state = "finished" => Len(received[c]) > N

\* two frames delivered, both chunks received, then the end
C7_Witness ==
    \E c \in active :
        /\ IsStreamCompletion(c) /\ NoFailure(c)
        /\ Len(SelectSeq(frames[c], IsFrame)) = 2
        /\ Len(received[c]) = 4
        /\ IsChunk(received[c][1]) /\ IsChunk(received[c][2])
        /\ IsStop(received[c][3]) /\ IsStop(received[c][4])
        /\ received[c][1].value.completion # ""

(***************************************************************************)
(* C8.  If the upstream stream breaks while delivering frame k, the        *)
(* consumer has received the k-1 chunks of the earlier frames in order,    *)
(* receives the failure at pull k, gets no chunk afterwards, and the       *)
(* stream-opening call is not made again.                                  *)
(***************************************************************************)
C8_MidStreamFailureSurfaces ==
    \A c \in active :
        (/\ IsStreamCompletion(c)
         /\ frames[c] # << >>
         /\ frames[c][Len(frames[c])].kind = "fail") =>
            LET fr == SelectSeq(frames[c], IsFrame)
                k == Len(fr) + 1
            IN  /\ Len(received[c]) >= k
                /\ \A i \in 1..(k - 1) :
                       /\ IsChunk(received[c][i])
                       /\ received[c][i].value.completion =
                              DesignatedText(ConfigFamily, fr[i].payload.obj, TRUE)
                /\ IsFailure(received[c][k])
                /\ received[c][k].err = EventStreamError
                /\ \A i \in (k + 1)..Len(received[c]) : IsStop(received[c][i])
                /\ gen[c].state = "finished"
                /\ Len(sent[c]) = 1
                /\ sleeps[c] = << >>

\* the stream broke at the third frame and the consumer pulled once more
C8_Witness ==
    \E c \in active :
        /\ IsStreamCompletion(c)
        /\ Len(frames[c]) = 3 /\ frames[c][3].kind = "fail"
        /\ IsFrame(frames[c][1]) /\ IsFrame(frames[c][2])
        /\ Len(received[c]) = 4
        /\ IsFailure(received[c][3]) /\ IsStop(received[c][4])

(***************************************************************************)
(* C9.  For a provider-model-id of none of the three families every        *)
(* adapter operation fails with the unsupported-model error carrying the   *)
(* identifier: encoding (so that create_completion makes no transport      *)
(* call), decoding a full response, and decoding a stream frame.           *)
(***************************************************************************)
IsUnsupportedModelError(e, model_id) ==
    /\ e.type = "BedrockError"
    /\ \/ e.text = model_id
       \/ \E j \in 1..Len(e.text) : SubSeq(e.text, j, Len(e.text)) = model_id

C9_UnsupportedModelAlwaysFails ==
    \A c \in active :
        /\ (IsCompletion(c) /\ ConfigFamily = "unsupported") =>
              /\ sent[c] = << >>
              /\ result[c].kind \notin {"value", "generator"}
              /\ result[c].kind = "error" =>
                     IsUnsupportedModelError(result[c].err, ExpectedModelId(config.model))
        /\ (/\ c \in active /\ call[c].entry = "_sync_completion"
            /\ FamilyOf(gen[c].model_id) = "unsupported"
            /\ outcomes[c][1].outcome = "ok" /\ outcomes[c][1].payload.json) =>
              /\ result[c].kind = "error"
              /\ IsUnsupportedModelError(result[c].err, gen[c].model_id)
        /\ (/\ c \in active /\ call[c].entry = "_stream_completion"
            /\ FamilyOf(gen[c].model_id) = "unsupported"
            /\ \E i \in DOMAIN frames[c] :
                   IsFrame(frames[c][i]) /\ frames[c][i].payload.json) =>
              \E j \in DOMAIN received[c] :
                  /\ IsFailure(received[c][j])
                  /\ IsUnsupportedModelError(received[c][j].err, gen[c].model_id)

(***************************************************************************)
(* C10.  When caching_prompt is true the body of every request handed to   *)
(* the transport by create_completion has a cache block with enabled true  *)
(* and ttl the call's cache_ttl override, 3600 without one; when           *)
(* caching_prompt is false the body has no cache block.                    *)
(***************************************************************************)
C10_CacheDirective ==
    \A c \in active :
        IsCompletion(c) =>
            \A i \in DOMAIN sent[c] :
                LET body == sent[c][i].body
                IN  IF config.caching_prompt
                    THEN /\ "cacheConfig" \in DOMAIN body
                         /\ body.cacheConfig.enabled = TRUE
                         /\ body.cacheConfig.ttl =
                                IF "cache_ttl" \in DOMAIN call[c].kwargs
                                THEN call[c].kwargs.cache_ttl ELSE 3600
                    ELSE "cacheConfig" \notin DOMAIN body

\* a retried request with an overridden ttl
C10_Witness ==
    \E c \in active :
        /\ IsSyncCompletion(c) /\ config.caching_prompt
        /\ Len(sent[c]) = 2
        /\ sent[c][1].body.cacheConfig.ttl = 120
        /\ sent[c][2].body.cacheConfig.ttl = 120

(***************************************************************************)
(* C17.  list_models never raises: on any failure while building the       *)
(* catalog client, calling the catalog or reading its response it logs a   *)
(* warning and returns an empty list; on success it returns every catalog  *)
(* model identifier prefixed with bedrock/, in the catalog's order.        *)
(***************************************************************************)
IsListModels(c) == c \in active /\ call[c].entry = "list_models"

\* the catalog answered with a list whose entries all have a modelId
CatalogSucceeded(o) ==
    /\ o.outcome = "ok"
    /\ "modelSummaries" \in DOMAIN o.payload.obj
    /\ \A i \in DOMAIN o.payload.obj.modelSummaries :
           "modelId" \in DOMAIN o.payload.obj.modelSummaries[i]

C17_ListModelsNeverRaises ==
    \A c \in active :
        (IsListModels(c) /\ pc[c] = "done") =>
            LET o == outcomes[c][1]
            IN  /\ result[c].kind = "value"
                /\ IF CatalogSucceeded(o)
                   THEN LET l == o.payload.obj.modelSummaries
                        IN  /\ Len(result[c].value) = Len(l)
                            /\ \A i \in DOMAIN l :
                                   /\ Head(result[c].value[i]) = "bedrock/"
                                   /\ Tail(result[c].value[i]) = l[i].modelId
                            /\ warnings = << >>
                   ELSE /\ result[c].value = << >>
                        /\ Len(warnings) = 1
                        /\ warnings[1].msg = "Failed to list Bedrock models: "

\* the second entry of the catalog's list has no modelId
C17_Witness ==
    \E c \in active :
        /\ IsListModels(c) /\ pc[c] = "done"
        /\ outcomes[c][1].outcome = "ok"
        /\ "modelSummaries" \in DOMAIN outcomes[c][1].payload.obj
        /\ Len(outcomes[c][1].payload.obj.modelSummaries) = 2
        /\ "modelId" \in DOMAIN outcomes[c][1].payload.obj.modelSummaries[1]
        /\ "modelId" \notin DOMAIN outcomes[c][1].payload.obj.modelSummaries[2]
        /\ result[c].kind = "value" /\ result[c].value = << >>
        /\ Len(warnings) = 1

(***************************************************************************)
(* C18.  Whatever the upstream payload, the value create_completion        *)
(* returns and every chunk it streams has the uniform shape: completion    *)
(* is text, usage is a mapping of token-accounting fields, stop_reason is  *)
(* text, null or absent.                                                   *)
(***************************************************************************)
\* the leaf tokens of the payloads that are numbers, and those that are mappings
NumberTokens == {"12"}
MappingTokens == {"{}", "{tokens: 7}"}
IsText(v) == v \notin (NumberTokens \union MappingTokens \union {None})

UniformShape(v) ==
    /\ "completion" \in DOMAIN v /\ IsText(v.completion)
    /\ "usage" \in DOMAIN v /\ v.usage \in MappingTokens
    /\ "stop_reason" \in DOMAIN v => (v.stop_reason = None \/ IsText(v.stop_reason))

C18_UniformShapeOnly ==
    \A c \in active :
        IsCompletion(c) =>
            /\ result[c].kind = "value" => UniformShape(result[c].value)
            /\ \A i \in DOMAIN received[c] :
                   received[c][i].kind = "chunk" => UniformShape(received[c][i].value)

(***************************************************************************)
(* C19.  For each of the three families the request is encoded (with the   *)
(* family's own field names) and a well-formed response of that family is  *)
(* decoded without an error, completion being the family's designated      *)
(* text field: completion, results[0].outputText,                          *)
(* completions[0].data.text.                                               *)
(***************************************************************************)
\* the response carries the family's designated text field
HasDesignatedText(fam, obj) ==
    IF fam = "anthropic.claude" THEN "completion" \in DOMAIN obj
    ELSE IF fam = "amazon.titan" THEN
        /\ "results" \in DOMAIN obj /\ Len(obj.results) >= 1
        /\ "outputText" \in DOMAIN obj.results[1]
    ELSE
        /\ "completions" \in DOMAIN obj /\ Len(obj.completions) >= 1
        /\ "data" \in DOMAIN obj.completions[1]
        /\ "text" \in DOMAIN obj.completions[1].data

\* the body names the generation parameters the way the family does
EncodedFor(fam, body) ==
    IF fam = "anthropic.claude" THEN
        {"prompt", "temperature", "top_p", "max_tokens", "anthropic_version"}
            \subseteq DOMAIN body
    ELSE IF fam = "amazon.titan" THEN
        /\ {"inputText", "textGenerationConfig"} \subseteq DOMAIN body
        /\ DOMAIN body.textGenerationConfig = {"temperature", "topP", "maxTokenCount"}
    ELSE {"prompt", "temperature", "topP", "maxTokens"} \subseteq DOMAIN body

C19_EncodeThenDecode ==
    \A c \in active :
        (IsSyncCompletion(c) /\ ConfigFamily \in Families /\ MaxRetries(config) >= 1
           /\ pc[c] = "done") =>
            \* encoding did not raise: the request went out
            /\ Len(sent[c]) >= 1
            /\ \A i \in DOMAIN sent[c] : EncodedFor(ConfigFamily, sent[c][i].body)
            /\ LET last == outcomes[c][Len(outcomes[c])]
               IN  (/\ Answered(last) /\ last.payload.json
                    /\ HasDesignatedText(ConfigFamily, last.payload.obj)) =>
                       /\ result[c].kind = "value"
                       /\ result[c].value.completion =
                              DesignatedText(ConfigFamily, last.payload.obj, FALSE)
                       /\ result[c].value.completion # ""

\* the flat-parameter family: the text of completions[0].data.text
C19_Witness ==
    \E c \in active :
        /\ IsSyncCompletion(c) /\ ConfigFamily = "ai21" /\ pc[c] = "done"
        /\ Len(sent[c]) = 1
        /\ result[c].kind = "value"
        /\ result[c].value.completion = "AI21 response"

(***************************************************************************)
(* C20.  The delay slept after a throttled attempt is                      *)
(* min(max_wait, min_wait * multiplier^attempt), attempt being the 0-based *)
(* index of the throttled attempt (the first delay of a call is            *)
(* min(max_wait, min_wait)); every delay is at most max_wait.              *)
(***************************************************************************)
C20_BackoffFromAttemptZero ==
    \A c \in active :
        IsSyncCompletion(c) =>
            \A i \in DOMAIN sleeps[c] :
                LET attempt == sleeps[c][i].after - 1
                IN  /\ sleeps[c][i].wait =
                           Min(config.retry_max_wait,
                               config.retry_min_wait * Pow(config.retry_multiplier, attempt))
                    /\ sleeps[c][i].wait <= config.retry_max_wait


(***************************************************************************)
(* Vocabulary of the registry properties.                                  *)
(***************************************************************************)
\* t's load_provider call has ended
LoadEnded(t) == t \in loaders /\ lpc[t] = "done"
LoadSucceeded(t) == LoadEnded(t) /\ lres[t].kind = "value"
LoadFailed(t) == LoadEnded(t) /\ lres[t].kind = "error"

\* the fields of the schema a declaration violates
MissingRequired(decl) == {"model_name", "api_base", "api_key"} \ DOMAIN decl
ViolatedFields(decl) ==
    MissingRequired(decl)
    \union (IF "timeout" \in DOMAIN decl /\ decl.timeout \notin {"30", "60"}
            THEN {"timeout"} ELSE {})

SchemaViolated(file) == file.exists /\ file.mapping /\ ViolatedFields(file.decl) # {}

\* a declaration that passes the schema and names a class that does not resolve
ClassUnresolvable(file) ==
    /\ file.exists /\ file.mapping /\ ViolatedFields(file.decl) = {}
    /\ "provider_class" \in DOMAIN file.decl
    /\ file.decl.provider_class \in UnresolvableRefs

\* a declaration that gives a class reference (a non-empty one)
ClassGiven(decl) == "provider_class" \in DOMAIN decl /\ decl.provider_class # ""

\* cfg has the value of every field the source gives and the schema's
\* default for every other field
EqualInAllFields(cfg, decl) ==
    /\ DOMAIN decl \subseteq DOMAIN cfg
    /\ \A k \in DOMAIN cfg :
          cfg[k] = IF k \in DOMAIN decl THEN decl[k] ELSE ProviderConfigDefaults[k]

\* the tokens sub occur next to each other in s
Occurs(sub, s) ==
    \E i \in 0..(Len(s) - Len(sub)) : \A j \in 1..Len(sub) : s[i + j] = sub[j]

(***************************************************************************)
(* C11.  After any sequence of load_provider calls on one registry,        *)
(* get_model_config(name) is the validated declaration of the most recent  *)
(* successful load of that name, equal in all fields to that source, and   *)
(* is None for a name never successfully loaded.                           *)
(***************************************************************************)
C11_LastSuccessfulLoadVisible ==
    \A name \in ModelNames :
        IF name \in DOMAIN lastOk
        THEN /\ name \in DOMAIN loaded_models
             /\ EqualInAllFields(GetModelConfig(loaded_models, name), lastOk[name])
        ELSE /\ name \notin DOMAIN loaded_models
             /\ GetModelConfig(loaded_models, name) = None

\* a successful load has replaced a different entry of the same name
C11_Witness ==
    \E t \in loaders :
        /\ LoadSucceeded(t)
        /\ lres[t].value.model_name \in DOMAIN before[t].loaded_models
        /\ before[t].loaded_models[lres[t].value.model_name] # lres[t].value
        /\ loaded_models[lres[t].value.model_name] = lres[t].value

(***************************************************************************)
(* C12.  A load_provider call that fails (source not found, schema         *)
(* violated, provider_class not resolvable, or any other error) leaves     *)
(* the name-to-declaration mapping as it was before the call.              *)
(***************************************************************************)
C12_FailedLoadKeepsMapping ==
    \A t \in loaders :
        /\ LoadEnded(t)
        /\ \/ lres[t].kind = "error"
           \/ ~lfile[t].exists
           \/ SchemaViolated(lfile[t])
           \/ ClassUnresolvable(lfile[t])
        => loaded_models = before[t].loaded_models

\* a load has failed while an entry of the same name was in the mapping
C12_Witness ==
    \E t \in loaders :
        /\ LoadFailed(t)
        /\ lfile[t].mapping
        /\ "model_name" \in DOMAIN lfile[t].decl
        /\ lfile[t].decl.model_name \in DOMAIN loaded_models

(***************************************************************************)
(* C13.  A declaration that violates the schema makes load_provider raise  *)
(* one invalid-configuration error that names every violated field, each   *)
(* missing required field as 'Missing required field: <name>'.             *)
(***************************************************************************)
C13_EveryViolationReported ==
    \A t \in loaders :
        LoadEnded(t) /\ SchemaViolated(lfile[t]) =>
            /\ lres[t].kind = "error"
            /\ lres[t].err.type = "ValueError"
            /\ lres[t].err.prefix = "Invalid provider configuration: "
            /\ \A f \in ViolatedFields(lfile[t].decl) : Occurs(<<f>>, lres[t].err.text)
            /\ \A f \in MissingRequired(lfile[t].decl) :
                  Occurs(<<"Missing required field:", f>>, Str(lres[t].err))

(***************************************************************************)
(* C14.  A declaration whose provider_class cannot be resolved makes       *)
(* load_provider fail with the registration error, and afterwards the      *)
(* model_name is resolvable neither in the registry mapping nor in the     *)
(* shared mechanism.                                                       *)
(***************************************************************************)
C14_UnresolvableClassResolvesNowhere ==
    \A t \in loaders :
        LoadEnded(t) /\ ClassUnresolvable(lfile[t]) =>
            /\ lres[t].kind = "error"
            /\ lres[t].err.prefix = "Failed to register custom provider: "
            /\ lfile[t].decl.model_name \notin DOMAIN loaded_models
            /\ lfile[t].decl.model_name \notin DOMAIN registered

(***************************************************************************)
(* C14, amended.  A declaration whose provider_class cannot be resolved    *)
(* makes load_provider fail with the registration error before anything    *)
(* is registered or inserted: the registry mapping and the shared          *)
(* mechanism are as they were before the call.                             *)
(***************************************************************************)
C14_UnresolvableClassChangesNothing ==
    \A t \in loaders :
        LoadEnded(t) /\ ClassUnresolvable(lfile[t]) =>
            /\ lres[t].kind = "error"
            /\ lres[t].err.type = "ValueError"
            /\ lres[t].err.prefix = "Failed to register custom provider: "
            /\ Shared = before[t]

\* such a load has failed for a name an earlier load had registered
C14_Witness ==
    \E t \in loaders :
        /\ LoadFailed(t)
        /\ ClassUnresolvable(lfile[t])
        /\ lfile[t].decl.model_name \in DOMAIN before[t].registered
        /\ lfile[t].decl.model_name \in DOMAIN before[t].loaded_models

(***************************************************************************)
(* C15.  After a successful load_provider the model_name is in             *)
(* list_models() and the shared mechanism resolves it to the same          *)
(* declaration, with the resolved class attached when provider_class was   *)
(* given; and every name in the registry mapping is registered with the    *)
(* shared mechanism.                                                       *)
(***************************************************************************)
C15_LoadedIsResolvable ==
    /\ \A t \in loaders :
          LoadSucceeded(t) =>
              LET cfg == lres[t].value
                  name == lres[t].value.model_name
              IN  /\ name \in LoadedModelNames(loaded_models)
                  /\ name \in DOMAIN registered
                  /\ GetProvider(registered, name) = cfg
                  /\ ClassGiven(lfile[t].decl) =>
                        /\ name \in DOMAIN provider_classes
                        /\ provider_classes[name] = <<"class", cfg.provider_class>>
    /\ \A name \in LoadedModelNames(loaded_models) : name \in DOMAIN registered

\* a declaration with a class reference has been loaded
C15_Witness ==
    \E t \in loaders :
        /\ LoadSucceeded(t)
        /\ ClassGiven(lfile[t].decl)
        /\ lres[t].value.model_name \in DOMAIN provider_classes

(***************************************************************************)
(* C16.  Concurrent load_provider calls for the same model_name take       *)
(* effect as if one ran before the other: once they have ended, the        *)
(* registry mapping and the shared mechanism hold the same declaration     *)
(* for the name.                                                           *)
(***************************************************************************)
C16_ConcurrentLoadsSerialize ==
    (\A t \in loaders : lpc[t] \in {"idle", "done"}) =>
        /\ DOMAIN loaded_models = DOMAIN registered
        /\ \A name \in DOMAIN loaded_models :
              loaded_models[name] = GetProvider(registered, name)


(***************************************************************************)
(* C21.  For each of the three families, decoding a payload (a full        *)
(* response or a stream frame) that is a JSON mapping whose optional       *)
(* parts are missing or empty (no text field, no usage, no stop reason,    *)
(* an absent or empty results/completions list) does not fail: the result  *)
(* has completion = '' and usage = {} for the absent parts.                *)
(***************************************************************************)
\* the key of the payload the family's usage is read from
UsageKey(fam) == IF fam = "amazon.titan" THEN "inputTokenCount" ELSE "usage"

C21_MissingFieldsTolerated ==
    \A c \in active :
        /\ (/\ IsSyncCompletion(c) /\ ConfigFamily \in Families /\ pc[c] = "done"
            /\ Len(outcomes[c]) >= 1
            /\ Answered(outcomes[c][Len(outcomes[c])])
            /\ outcomes[c][Len(outcomes[c])].payload.json) =>
               LET obj == outcomes[c][Len(outcomes[c])].payload.obj
               IN  /\ result[c].kind = "value"
                   /\ ~HasDesignatedText(ConfigFamily, obj) =>
                          result[c].value.completion = ""
                   /\ UsageKey(ConfigFamily) \notin DOMAIN obj =>
                          result[c].value.usage = EmptyMapping
        /\ (/\ IsStreamCompletion(c) /\ ConfigFamily \in Families
            /\ \A i \in DOMAIN outcomes[c] : Answered(outcomes[c][i])
            /\ \A i \in DOMAIN frames[c] :
                   IsFrame(frames[c][i]) /\ frames[c][i].payload.json) =>
               NoFailure(c)


(***************************************************************************)
(* C22.  Retry state is per logical call: with several create_completion   *)
(* calls in flight on one client, the attempt counter of a call counts     *)
(* the throttled attempts of that call only, and each call gets its own    *)
(* full budget of max_retries attempts (a call throttled on every attempt  *)
(* ends with the rate-limit error after exactly max_retries attempts of    *)
(* its own).                                                               *)
(***************************************************************************)
\* the attempts of c that the transport throttled
ThrottledCount(c) ==
    Cardinality({ i \in DOMAIN outcomes[c] : Throttled(outcomes[c][i]) })

C22_RetryStatePerCall ==
    \A c \in active :
        IsCompletion(c) =>
            /\ retries[c] = ThrottledCount(c)
            /\ Len(sent[c]) = Len(outcomes[c])
            /\ MaxRetries(config) >= 1 =>
                  /\ Len(outcomes[c]) <= MaxRetries(config)
                  /\ (/\ ~call[c].stream /\ pc[c] = "done"
                      /\ FirstThrottled(c, Len(outcomes[c]))) =>
                         /\ Len(outcomes[c]) = MaxRetries(config)
                         /\ result[c] = Raised(RateLimitExceeded(MaxRetries(config)))

\* both calls are between attempts, with different counts, and later one
\* has used up its budget while the other is still on its first attempts
C22_Witness ==
    /\ active = {1, 2}
    /\ MaxRetries(config) = 3
    /\ IsSyncCompletion(1) /\ IsSyncCompletion(2)
    /\ pc[1] = "done" /\ result[1] = Raised(RateLimitExceeded(3)) /\ retries[1] = 3
    /\ pc[2] = "sleep" /\ retries[2] = 1
    /\ sleeps[1][2].after = 2

====
